---- MODULE Spec2Model ----
(***************************************************************************)
(* YouTube_History_Analyzer: the watch-history parser                      *)
(* (youtube_history_analyzer/parser.py, cli.py) and the topic classifier   *)
(* (youtube_history_analyzer/classifier.py).                               *)
(*                                                                         *)
(* Text is modelled as a sequence of one-character strings, so that        *)
(* trimming, line splitting, substring tests, date parsing and label       *)
(* formatting are computed character by character, as the Python code and  *)
(* the library calls it makes compute them.                                *)
(***************************************************************************)
EXTENDS Integers, Sequences, FiniteSets, TLC

\* ------------------------------------------------------------------ bounds

\* longest document, in top-level divs
MaxBlocks == 2
\* longest title list handed to the classifier
MaxTitles == 2
\* largest num_topics a classifier instance is built with
MaxTopics == 2

\* ------------------------------------------------------------ text helpers

SetMax(S) == CHOOSE x \in S : \A y \in S : y <= x

SetMin(S) == CHOOSE x \in S : \A y \in S : x <= y

\* the characters str.strip() removes (those that occur in the inputs)
Whitespace == {" ", "\n"}

\* character i of s, "" past either end
At(s, i) == IF i \in 1..Len(s) THEN s[i] ELSE ""

\* s[a..b], clipped to the string
Sub(s, a, b) == IF a > Len(s) \/ b < a THEN << >> ELSE SubSeq(s, a, IF b > Len(s) THEN Len(s) ELSE b)

\* str.strip()
Strip(s) ==
    LET keep == {i \in 1..Len(s) : s[i] \notin Whitespace}
    IN  IF keep = {} THEN << >> ELSE SubSeq(s, SetMin(keep), SetMax(keep))

\* sep.join(parts)
RECURSIVE Join(_, _)
Join(parts, sep) ==
    IF parts = << >> THEN << >>
    ELSE IF Len(parts) = 1 THEN parts[1]
    ELSE parts[1] \o sep \o Join(Tail(parts), sep)

\* s.split("\n")[-1]
LastLine(s) ==
    LET breaks == {i \in 1..Len(s) : s[i] = "\n"}
    IN  IF breaks = {} THEN s ELSE Sub(s, SetMax(breaks) + 1, Len(s))

\* the Python test `needle in hay` on two str values
HasSubstring(needle, hay) ==
    \E i \in 0..(Len(hay) - Len(needle)) :
        \A j \in 1..Len(needle) : hay[i + j] = needle[j]

UpperCase == <<"A", "B", "C", "D", "E", "F", "G", "H", "I", "J", "K", "L", "M", "N", "O", "P", "Q", "R", "S", "T", "U", "V", "W", "X", "Y", "Z">>

LowerCase == <<"a", "b", "c", "d", "e", "f", "g", "h", "i", "j", "k", "l", "m", "n", "o", "p", "q", "r", "s", "t", "u", "v", "w", "x", "y", "z">>

DigitChars == <<"0", "1", "2", "3", "4", "5", "6", "7", "8", "9">>

LowerChar(c) ==
    IF \E i \in 1..26 : UpperCase[i] = c
    THEN LowerCase[CHOOSE i \in 1..26 : UpperCase[i] = c]
    ELSE c

\* str.lower(); the regular expression of strptime is compiled IGNORECASE
Lower(s) == [i \in 1..Len(s) |-> LowerChar(s[i])]

IsDigit(c) == \E d \in 1..10 : DigitChars[d] = c

DigitVal(c) == (CHOOSE d \in 1..10 : DigitChars[d] = c) - 1

\* int(s) of a string of decimal digits
RECURSIVE ToInt(_)
ToInt(s) ==
    IF s = << >> THEN 0
    ELSE 10 * ToInt(SubSeq(s, 1, Len(s) - 1)) + DigitVal(s[Len(s)])

\* str(n) of a natural number, as an f-string formats it
RECURSIVE IntToStr(_)
IntToStr(n) ==
    IF n < 10 THEN <<DigitChars[n + 1]>>
    ELSE IntToStr(n \div 10) \o <<DigitChars[(n % 10) + 1]>>

\* length of the longest run of digits of s that starts at p
DigitRun(s, p) ==
    SetMax({0} \cup {k \in 1..(Len(s) - p + 1) : \A j \in 0..(k - 1) : IsDigit(s[p + j])})

\* length of the longest run of whitespace of s that starts at p
SpaceRun(s, p) ==
    SetMax({0} \cup {k \in 1..(Len(s) - p + 1) : \A j \in 0..(k - 1) : s[p + j] \in Whitespace})

\* --------------------------------- datetime.strptime(date_text, "%b %d, %Y, %I:%M:%S %p %Z")

MonthAbbr ==
    << <<"j", "a", "n">>, <<"f", "e", "b">>, <<"m", "a", "r">>, <<"a", "p", "r">>,
       <<"m", "a", "y">>, <<"j", "u", "n">>, <<"j", "u", "l">>, <<"a", "u", "g">>,
       <<"s", "e", "p">>, <<"o", "c", "t">>, <<"n", "o", "v">>, <<"d", "e", "c">> >>

S_am == <<"a", "m">>

S_pm == <<"p", "m">>

S_utc == <<"u", "t", "c">>

S_gmt == <<"g", "m", "t">>

IsLeap(y) == (y % 4 = 0) /\ ((y % 100 # 0) \/ (y % 400 = 0))

DaysInMonth(y, m) ==
    IF m = 2 THEN (IF IsLeap(y) THEN 29 ELSE 28)
    ELSE IF m \in {4, 6, 9, 11} THEN 30 ELSE 31

\* the names %Z accepts: "utc", "gmt" and the two names of time.tzname of the
\* machine the parser runs on, compared case-insensitively
ZoneNames(tz) == {S_utc, S_gmt, Lower(tz[1]), Lower(tz[2])}

\* what strptime returns when the text does not match the format
NoDate == [ok |-> FALSE, year |-> 0, month |-> 0, day |-> 0,
           hour |-> 0, minute |-> 0, second |-> 0, tzname |-> << >>]

\* %I with %p: 12 AM is hour 0, 1..11 PM are 13..23
Hour24(h, ampm) ==
    IF ampm = S_am THEN (IF h = 12 THEN 0 ELSE h)
    ELSE (IF h # 12 THEN h + 12 ELSE h)

\* the format string, directive by directive
DateFormat == <<"%b", " ", "%d", ",", " ", "%Y", ",", " ", "%I", ":", "%M", ":", "%S", " ", "%p", " ", "%Z">>

\* the one element of a singleton set; Pick({F(v) : v \in {e}}) is F(e) with e
\* computed once
Pick(S) == CHOOSE r \in S : TRUE

\* the scanner before the first directive
ScanStart == [ok |-> TRUE, pos |-> 1, month |-> 0, day |-> 0, year |-> 0,
              hour |-> 0, minute |-> 0, second |-> 0, ampm |-> << >>]

\* a numeric directive: a run of nLo..nHi digits whose value is in lo..hi
NumberAt(s, st, nLo, nHi, lo, hi) ==
    LET n == DigitRun(s, st.pos)
    IN  IF n \in nLo..nHi /\ ToInt(Sub(s, st.pos, st.pos + n - 1)) \in lo..hi
        THEN [ok |-> TRUE, n |-> n, val |-> ToInt(Sub(s, st.pos, st.pos + n - 1))]
        ELSE [ok |-> FALSE, n |-> 0, val |-> 0]

Failed(st) == [st EXCEPT !.ok = FALSE]

\* One directive of the format's regular expression, matched at st.pos:
\* whitespace of the format is \s+, "," and ":" are themselves, %b is a month
\* abbreviation, %d 1..31, %Y four digits, %I 1..12, %M 0..59, %S 0..61, %p
\* am or pm, %Z one of the zone names and the end of the text
Directive(d, s, tz, st) ==
    IF ~st.ok THEN st
    ELSE IF d = " " THEN
        (IF SpaceRun(s, st.pos) >= 1 THEN [st EXCEPT !.pos = @ + SpaceRun(s, st.pos)] ELSE Failed(st))
    ELSE IF d \in {",", ":"} THEN
        (IF At(s, st.pos) = d THEN [st EXCEPT !.pos = @ + 1] ELSE Failed(st))
    ELSE IF d = "%b" THEN
        (IF \E m \in 1..12 : Lower(Sub(s, st.pos, st.pos + 2)) = MonthAbbr[m]
         THEN [st EXCEPT !.pos = @ + 3,
                         !.month = CHOOSE m \in 1..12 : Lower(Sub(s, st.pos, st.pos + 2)) = MonthAbbr[m]]
         ELSE Failed(st))
    ELSE IF d = "%p" THEN
        (IF Lower(Sub(s, st.pos, st.pos + 1)) \in {S_am, S_pm}
         THEN [st EXCEPT !.pos = @ + 2, !.ampm = Lower(Sub(s, st.pos, st.pos + 1))]
         ELSE Failed(st))
    ELSE IF d = "%Z" THEN
        (IF Lower(Sub(s, st.pos, Len(s))) \in ZoneNames(tz)
         THEN [st EXCEPT !.pos = Len(s) + 1]
         ELSE Failed(st))
    ELSE Pick({IF ~f.ok THEN Failed(st)
               ELSE IF d = "%d" THEN [st EXCEPT !.pos = @ + f.n, !.day = f.val]
               ELSE IF d = "%Y" THEN [st EXCEPT !.pos = @ + f.n, !.year = f.val]
               ELSE IF d = "%I" THEN [st EXCEPT !.pos = @ + f.n, !.hour = f.val]
               ELSE IF d = "%M" THEN [st EXCEPT !.pos = @ + f.n, !.minute = f.val]
               ELSE [st EXCEPT !.pos = @ + f.n, !.second = f.val] :
               f \in {IF d = "%d" THEN NumberAt(s, st, 1, 2, 1, 31)
                      ELSE IF d = "%Y" THEN NumberAt(s, st, 4, 4, 0, 9999)
                      ELSE IF d = "%I" THEN NumberAt(s, st, 1, 2, 1, 12)
                      ELSE IF d = "%M" THEN NumberAt(s, st, 1, 2, 0, 59)
                      ELSE NumberAt(s, st, 1, 2, 0, 61)}})

\* the scanner after the first k directives
RECURSIVE Scan(_, _, _)
Scan(k, s, tz) ==
    IF k = 0 THEN ScanStart
    ELSE Pick({Directive(DateFormat[k], s, tz, st) : st \in {Scan(k - 1, s, tz)}})

\* the datetime of a finished scan: the whole text matched, and the date is
\* one of the calendar (the datetime constructor's check). The value is a
\* naive datetime: %Z validates the zone name and drops it, so tzinfo is None
\* and tzname() gives None (the empty tzname here).
DateOf(st, s) ==
    IF /\ st.ok
       /\ st.pos = Len(s) + 1
       /\ st.year >= 1
       /\ st.day <= DaysInMonth(st.year, st.month)
       /\ st.second <= 59
    THEN [ok |-> TRUE, year |-> st.year, month |-> st.month, day |-> st.day,
          hour |-> Hour24(st.hour, st.ampm), minute |-> st.minute,
          second |-> st.second, tzname |-> << >>]
    ELSE NoDate

\* datetime.strptime(date_text, "%b %d, %Y, %I:%M:%S %p %Z") on a machine whose
\* time.tzname is tz; NoDate stands for the ValueError
StrpTime(date_text, tz) ==
    Pick({DateOf(Scan(Len(DateFormat), s, tz), s) : s \in {date_text}})

\* ------------------------------------------------- the parse tree (BeautifulSoup)

\* A text node, a link, a line break: the children of a div. A link's text is
\* its one string child ("" when it has none); hasHref is whether the tag
\* carries an href attribute at all.
TextNode(s) == [tag |-> "#text", text |-> s, hasHref |-> FALSE, href |-> << >>]

Anchor(h, s) == [tag |-> "a", text |-> s, hasHref |-> TRUE, href |-> h]

AnchorNoHref(s) == [tag |-> "a", text |-> s, hasHref |-> FALSE, href |-> << >>]

Br == [tag |-> "br", text |-> << >>, hasHref |-> FALSE, href |-> << >>]

\* A div below a top-level div: its class attribute, split on whitespace as
\* BeautifulSoup stores a multi-valued attribute, and its children.
Div(cls, kids) == [class |-> cls, children |-> kids]

\* A top-level div of the document and the divs below it, in document order.
\* isNone marks the argument None of a direct call of _parse_watch_entry.
TopDiv(cls, inner) == [isNone |-> FALSE, class |-> cls, divs |-> inner]

NoneEntry == [isNone |-> TRUE, class |-> << >>, divs |-> << >>]

S_content_cell == <<"c", "o", "n", "t", "e", "n", "t", "-", "c", "e", "l", "l">>

S_mdl_cell_6_col == <<"m", "d", "l", "-", "c", "e", "l", "l", "-", "-", "6", "-", "c", "o", "l">>

S_mdl_typography_body_1 == <<"m", "d", "l", "-", "t", "y", "p", "o", "g", "r", "a", "p", "h", "y", "-", "-", "b", "o", "d", "y", "-", "1">>

\* the class names the content cell must carry
RequiredClasses == {S_content_cell, S_mdl_cell_6_col, S_mdl_typography_body_1}

\* the string find_all is given for the top-level event containers
S_OUTER == <<"o", "u", "t", "e", "r", "-", "c", "e", "l", "l", " ", "m", "d", "l", "-", "c", "e", "l", "l", " ", "m", "d", "l", "-", "c", "e", "l", "l", "-", "-", "1", "2", "-", "c", "o", "l", " ", "m", "d", "l", "-", "s", "h", "a", "d", "o", "w", "-", "-", "2", "d", "p">>

\* lambda x: x and all(c in x for c in [...]); x is a str, `in` the substring test
ClassFilter(x) == x # << >> /\ \A c \in RequiredClasses : HasSubstring(c, x)

\* BeautifulSoup's match of a class attribute against a function: the function
\* is tried on every token of the attribute and then on the tokens joined by
\* one space; an element without the attribute hands it None
MatchesClassFunction(cls) ==
    \/ \E i \in 1..Len(cls) : ClassFilter(cls[i])
    \/ ClassFilter(Join(cls, <<" ">>))

\* BeautifulSoup's match of a class attribute against a string: a token equal
\* to it, or the joined attribute value equal to it
MatchesClassString(cls, str) ==
    \/ \E i \in 1..Len(cls) : cls[i] = str
    \/ (cls # << >> /\ Join(cls, <<" ">>) = str)

\* entry.find("div", class_=...): the first matching div in document order
FindContent(entry) ==
    LET hits == {i \in 1..Len(entry.divs) : MatchesClassFunction(entry.divs[i].class)}
    IN  IF hits = {} THEN [found |-> FALSE, div |-> Div(<< >>, << >>)]
        ELSE [found |-> TRUE, div |-> entry.divs[SetMin(hits)]]

IsAnchor(n) == n.tag = "a"

\* content.find_all("a")
FindAllA(content) == SelectSeq(content.children, IsAnchor)

\* the strings get_text(strip=True) keeps: every string below the element,
\* stripped, the empty ones dropped
RECURSIVE StrippedStrings(_)
StrippedStrings(kids) ==
    IF kids = << >> THEN << >>
    ELSE LET t == Strip(kids[1].text)
         IN  (IF t = << >> THEN << >> ELSE <<t>>) \o StrippedStrings(Tail(kids))

\* content.get_text(separator="\n", strip=True)
GetText(content) == Join(StrippedStrings(content.children), <<"\n">>)

\* ------------------------------------------------------------ parser.py

\* a Python dict, as its items in insertion order
DictKeys(d) == [i \in 1..Len(d) |-> d[i][1]]

DictGet(d, k) == d[CHOOSE i \in 1..Len(d) : d[i][1] = k][2]

NoRecord == [isNone |-> TRUE, record |-> << >>]

\* BuildRecord with the links' text taken as it stands
BuildRecordUntrimmed(video_link, channel_link, date) ==
    IF ~video_link.hasHref \/ ~channel_link.hasHref THEN NoRecord
    ELSE [isNone |-> FALSE,
          record |-> << <<"video", video_link.text>>,
                        <<"video_url", video_link.href>>,
                        <<"channel", channel_link.text>>,
                        <<"channel_url", channel_link.href>>,
                        <<"date", date>> >>]

\* the dict literal of _parse_watch_entry; indexing a link that has no href
\* raises KeyError, which the enclosing except turns into None
BuildRecord(video_link, channel_link, date) ==
    IF ~video_link.hasHref \/ ~channel_link.hasHref THEN NoRecord
    ELSE [isNone |-> FALSE,
          record |-> << <<"video", Strip(video_link.text)>>,
                        <<"video_url", video_link.href>>,
                        <<"channel", Strip(channel_link.text)>>,
                        <<"channel_url", channel_link.href>>,
                        <<"date", date>> >>]

\* _parse_watch_entry from the content cell on: links, date text, date, record
ExtractRecord(content, tz) ==
    LET links     == FindAllA(content)
        date_text == LastLine(GetText(content))
        date      == StrpTime(date_text, tz)
    IN  IF Len(links) < 2 THEN NoRecord
        ELSE IF ~date.ok THEN NoRecord
        ELSE BuildRecord(links[1], links[2], date)

\* YouTubeHistoryParser._parse_watch_entry
ParseWatchEntry(entry, tz) ==
    IF entry.isNone THEN NoRecord
    ELSE LET content == FindContent(entry)
         IN  IF ~content.found THEN NoRecord
             ELSE ExtractRecord(content.div, tz)

\* ------------------------------------------------------------ the inputs

S_UTC == <<"U", "T", "C">>

S_GMT == <<"G", "M", "T">>

S_EST == <<"E", "S", "T">>

S_EDT == <<"E", "D", "T">>

\* time.tzname of the machine that runs the parser: a machine on UTC and one
\* on US Eastern time
Machines == {<<S_UTC, S_UTC>>, <<S_EST, S_EDT>>}

\* Timestamps of the export's shape, by their fields: month, day, year, hour
\* on the 12-hour clock, minute, second, PM or AM, zone abbreviation
SampleStamp == [month |-> 2, day |-> 23, year |-> 2024, hour12 |-> 7,
                minute |-> 36, second |-> 45, pm |-> TRUE, tz |-> S_EST]

MidnightStamp == [month |-> 12, day |-> 1, year |-> 2023, hour12 |-> 12,
                  minute |-> 5, second |-> 9, pm |-> FALSE, tz |-> S_UTC]

NoonStamp == [month |-> 1, day |-> 31, year |-> 2025, hour12 |-> 12,
              minute |-> 0, second |-> 0, pm |-> TRUE, tz |-> S_GMT]

ShapedStamps == {SampleStamp, MidnightStamp, NoonStamp}

UpperChar(c) ==
    IF \E i \in 1..26 : LowerCase[i] = c
    THEN UpperCase[CHOOSE i \in 1..26 : LowerCase[i] = c]
    ELSE c

MonthName(m) == <<UpperChar(MonthAbbr[m][1])>> \o Tail(MonthAbbr[m])

Pad2(n) == IF n < 10 THEN <<"0">> \o IntToStr(n) ELSE IntToStr(n)

\* '<abbreviated-month> <day>, <year>, <h>:<mm>:<ss> <AM|PM> <tz-abbreviation>'
FormatStamp(t) ==
    MonthName(t.month) \o <<" ">> \o IntToStr(t.day) \o <<",", " ">>
    \o IntToStr(t.year) \o <<",", " ">> \o IntToStr(t.hour12) \o <<":">>
    \o Pad2(t.minute) \o <<":">> \o Pad2(t.second) \o <<" ">>
    \o (IF t.pm THEN <<"P", "M">> ELSE <<"A", "M">>) \o <<" ">> \o t.tz

S_wrong_shape == <<"2", "3", " ", "F", "e", "b", " ", "2", "0", "2", "4", " ", "1", "9", ":", "3", "6">>

S_Invalid_structure == <<"I", "n", "v", "a", "l", "i", "d", " ", "s", "t", "r", "u", "c", "t", "u", "r", "e">>

S_Watched == <<"W", "a", "t", "c", "h", "e", "d">>

S_Test_Video == <<"T", "e", "s", "t", " ", "V", "i", "d", "e", "o">>

S_Test_Channel == <<"T", "e", "s", "t", " ", "C", "h", "a", "n", "n", "e", "l">>

S_Details == <<"D", "e", "t", "a", "i", "l", "s">>

S_video_href == <<"h", "t", "t", "p", "s", ":", "/", "/", "w", "w", "w", ".", "y", "o", "u", "t", "u", "b", "e", ".", "c", "o", "m", "/", "w", "a", "t", "c", "h", "?", "v", "=", "1", "2", "3">>

S_channel_href == <<"h", "t", "t", "p", "s", ":", "/", "/", "w", "w", "w", ".", "y", "o", "u", "t", "u", "b", "e", ".", "c", "o", "m", "/", "c", "h", "a", "n", "n", "e", "l", "/", "4", "5", "6">>

S_other_href == <<"/", "m", "y", "a", "c", "t", "i", "v", "i", "t", "y">>

S_outer_cell == <<"o", "u", "t", "e", "r", "-", "c", "e", "l", "l">>

S_mdl_cell == <<"m", "d", "l", "-", "c", "e", "l", "l">>

S_mdl_cell_12_col == <<"m", "d", "l", "-", "c", "e", "l", "l", "-", "-", "1", "2", "-", "c", "o", "l">>

S_mdl_shadow_2dp == <<"m", "d", "l", "-", "s", "h", "a", "d", "o", "w", "-", "-", "2", "d", "p">>

S_mdl_grid == <<"m", "d", "l", "-", "g", "r", "i", "d">>

S_header_cell == <<"h", "e", "a", "d", "e", "r", "-", "c", "e", "l", "l">>

S_text_right == <<"m", "d", "l", "-", "t", "y", "p", "o", "g", "r", "a", "p", "h", "y", "-", "-", "t", "e", "x", "t", "-", "r", "i", "g", "h", "t">>

S_mdl_cell_6_col_tablet == <<"m", "d", "l", "-", "c", "e", "l", "l", "-", "-", "6", "-", "c", "o", "l", "-", "t", "a", "b", "l", "e", "t">>

\* class attributes, as their tokens
OuterClass == <<S_outer_cell, S_mdl_cell, S_mdl_cell_12_col, S_mdl_shadow_2dp>>

ContentClass == <<S_content_cell, S_mdl_cell, S_mdl_cell_6_col, S_mdl_typography_body_1>>

RightClass == ContentClass \o <<S_text_right>>

ReorderedClass == <<S_mdl_typography_body_1, S_text_right, S_mdl_cell_6_col, S_content_cell>>

TwoTokenClass == <<S_content_cell, S_mdl_cell_6_col>>

\* no token mdl-cell--6-col: the Material Design Lite class of a tablet-only width
TabletClass == <<S_content_cell, S_mdl_cell, S_mdl_cell_6_col_tablet, S_mdl_typography_body_1>>

HeaderDiv == Div(<<S_header_cell, S_mdl_cell, S_mdl_cell_12_col>>, << >>)

GridDiv == Div(<<S_mdl_grid>>, << >>)

RightDiv == Div(RightClass, <<TextNode(<<"\n", " ">>)>>)

\* "Watched <a href=v>video</a><br> <a href=c>channel</a><br> last"
Cell(video, channel, stamp) ==
    <<TextNode(<<"\n", " ">> \o S_Watched \o <<" ">>), video, Br, TextNode(<<"\n">>),
      channel, Br, TextNode(<<"\n", " ">> \o stamp \o <<"\n", " ">>)>>

VideoLink == Anchor(S_video_href, S_Test_Video)

ChannelLink == Anchor(S_channel_href, S_Test_Channel)

Entry(cls, kids) == TopDiv(OuterClass, <<GridDiv, HeaderDiv, Div(cls, kids), RightDiv>>)

\* the entry of the sample export
SampleEntry == Entry(ContentClass, Cell(VideoLink, ChannelLink, FormatStamp(SampleStamp)))

\* the same with the classes in another order, an extra class, padded link
\* text and a third link before the timestamp
ReorderedEntry ==
    Entry(ReorderedClass,
          <<Anchor(S_video_href, <<" ">> \o S_Test_Video \o <<"\n">>), Br, ChannelLink, Br,
            Anchor(S_other_href, S_Details), TextNode(FormatStamp(MidnightStamp))>>)

\* the malformed entry: a cell with two of the three classes and no link
InvalidEntry == TopDiv(OuterClass, <<GridDiv, Div(TwoTokenClass, <<TextNode(S_Invalid_structure)>>)>>)

OneLinkEntry ==
    Entry(ContentClass, <<TextNode(S_Watched), VideoLink, Br, TextNode(FormatStamp(NoonStamp))>>)

WrongShapeEntry == Entry(ContentClass, Cell(VideoLink, ChannelLink, S_wrong_shape))

\* an entry whose only cell has no class token mdl-cell--6-col
TabletEntry ==
    TopDiv(OuterClass,
           <<GridDiv, HeaderDiv,
             Div(TabletClass, Cell(VideoLink, ChannelLink, FormatStamp(MidnightStamp)))>>)

\* a channel link without an href attribute
NoHrefEntry ==
    Entry(ContentClass, Cell(VideoLink, AnchorNoHref(S_Test_Channel), FormatStamp(NoonStamp)))

\* a video link with whitespace for text and an empty href
BlankLinkEntry ==
    Entry(ContentClass, Cell(Anchor(<< >>, <<" ", " ">>), ChannelLink, FormatStamp(NoonStamp)))

\* a third link whose text is the last line of the cell
LinkedStampEntry ==
    Entry(ContentClass,
          <<VideoLink, Br, ChannelLink, Br, Anchor(S_other_href, FormatStamp(NoonStamp))>>)

\* a top-level div that is not an event container
PlainDiv == TopDiv(<<S_mdl_grid>>, <<Div(ContentClass, Cell(VideoLink, ChannelLink, FormatStamp(NoonStamp)))>>)

TopDivs == {SampleEntry, ReorderedEntry, InvalidEntry, OneLinkEntry, WrongShapeEntry,
            TabletEntry, NoHrefEntry, BlankLinkEntry, LinkedStampEntry, PlainDiv}

\* the documents: every sequence of at most MaxBlocks top-level divs
Documents == UNION {[1..n -> TopDivs] : n \in 0..MaxBlocks}

\* ------------------------------------------------------ parse_history

\* self.soup.find_all("div", class_="outer-cell mdl-cell mdl-cell--12-col mdl-shadow--2dp")
IsWatchEntry(d) == MatchesClassString(d.class, S_OUTER)

WatchEntries(tree) == SelectSeq(tree, IsWatchEntry)

\* _parse_watch_entry on every entry and machine of the inputs, tabulated
\* once (@@ makes the table an explicit function)
EntryResults ==
    << >> @@ [entry \in TopDivs \cup {NoneEntry} |->
                 << >> @@ [tz \in Machines |-> ParseWatchEntry(entry, tz)]]

\* the call self._parse_watch_entry(entry)
CallParseWatchEntry(entry, tz) == EntryResults[entry][tz]

\* the loop of parse_history: the parsed entries that are truthy, in order
RECURSIVE ParsedEntries(_, _)
ParsedEntries(watch_entries, tz) ==
    IF watch_entries = << >> THEN << >>
    ELSE LET parsed_entry == CallParseWatchEntry(watch_entries[1], tz)
         IN  (IF ~parsed_entry.isNone /\ parsed_entry.record # << >>
              THEN <<parsed_entry.record>> ELSE << >>)
             \o ParsedEntries(Tail(watch_entries), tz)

\* EmptyColumns without the date column
EmptyColumnsNoDate == <<"video", "video_url", "channel", "channel_url">>

\* the columns of the empty table parse_history builds
EmptyColumns == <<"video", "video_url", "channel", "channel_url", "date">>

\* the columns pandas gives a table built from a list of dicts: the keys in
\* the order they first appear
RECURSIVE KeysInOrder(_, _)
KeysInOrder(entries, seen) ==
    IF entries = << >> THEN seen
    ELSE LET add[n \in 0..Len(entries[1])] ==
                 IF n = 0 THEN seen
                 ELSE LET k == entries[1][n][1]
                          sofar == add[n - 1]
                      IN  IF \A i \in 1..Len(sofar) : sofar[i] # k
                          THEN Append(sofar, k) ELSE sofar
         IN  KeysInOrder(Tail(entries), add[Len(entries[1])])

\* pd.DataFrame(entries) and pd.DataFrame(columns=[...])
DataFrame(entries) ==
    IF entries = << >> THEN [columns |-> EmptyColumns, rows |-> << >>]
    ELSE [columns |-> KeysInOrder(entries, << >>), rows |-> entries]

\* YouTubeHistoryParser.parse_history, once the document is loaded
ParseHistoryOf(tree, tz) == DataFrame(ParsedEntries(WatchEntries(tree), tz))

\* ------------------------------------------------------------ state

VARIABLES
    tzname,       \* time.tzname of the machine
    file,         \* the export at file_path, as its top-level divs
    soup,         \* YouTubeHistoryParser.soup: None until the file is loaded
    df,           \* what the last parse_history call returned
    entry_call,   \* the last direct call of _parse_watch_entry and its result
    csv           \* the file process_watch_history wrote

parserVars == <<tzname, file, soup, df, entry_call, csv>>

NoTable == [returned |-> FALSE, columns |-> << >>, rows |-> << >>]

Returned(t) == [returned |-> TRUE, columns |-> t.columns, rows |-> t.rows]

\* YouTubeHistoryParser.__init__ on a machine and a file
ParserInit ==
    /\ tzname \in Machines
    /\ file \in Documents
    /\ soup = [loaded |-> FALSE, tree |-> << >>]
    /\ df = NoTable
    /\ entry_call = [called |-> FALSE, entry |-> NoneEntry, result |-> NoRecord]
    /\ csv = [written |-> FALSE, header |-> << >>, rows |-> << >>]

\* YouTubeHistoryParser._load_html
LoadHtml ==
    /\ ~soup.loaded
    /\ soup' = [loaded |-> TRUE, tree |-> file]
    /\ UNCHANGED <<tzname, file, df, entry_call, csv>>

\* a direct call of _parse_watch_entry, on None or on an entry of the loaded tree
ParseWatchEntryCall ==
    /\ soup.loaded
    /\ \E entry \in {NoneEntry} \cup {soup.tree[i] : i \in {j \in 1..Len(soup.tree) : IsWatchEntry(soup.tree[j])}} :
          entry_call' = [called |-> TRUE, entry |-> entry,
                         result |-> CallParseWatchEntry(entry, tzname)]
    /\ UNCHANGED <<tzname, file, soup, df, csv>>

\* YouTubeHistoryParser.parse_history: loads the file when soup is None
ParseHistory ==
    /\ soup' = [loaded |-> TRUE, tree |-> file]
    /\ df' = Returned(ParseHistoryOf(file, tzname))
    /\ UNCHANGED <<tzname, file, entry_call, csv>>

\* cli.process_watch_history: a parser of its own, parse_history, to_csv
ProcessWatchHistory ==
    /\ ~csv.written
    /\ LET table == ParseHistoryOf(file, tzname)
       IN  csv' = [written |-> TRUE, header |-> table.columns, rows |-> table.rows]
    /\ UNCHANGED <<tzname, file, soup, df, entry_call>>

\* ------------------------------------------------------------ classifier.py

None == [none |-> TRUE, val |-> << >>]

Some(v) == [none |-> FALSE, val |-> v]

S_Uncategorized == <<"U", "n", "c", "a", "t", "e", "g", "o", "r", "i", "z", "e", "d">>

S_Topic_ == <<"T", "o", "p", "i", "c", "_">>

\* the titles of a call; the classifier reads their number and hands them to
\* the model
Titles == {"Single Video Title", "Epic Gaming Montage 2024"}

\* the title lists of a call: every list of fewer than two titles, and one
\* list of each greater length up to MaxTitles
TitleLists ==
    UNION {[1..n -> Titles] : n \in 0..1}
    \cup {[i \in 1..n |-> IF i % 2 = 1 THEN "Single Video Title" ELSE "Epic Gaming Montage 2024"] :
          n \in 2..MaxTitles}

\* the words of a topic
Vocabulary == {"python", "gaming"}

\* a row of a distribution matrix over K topics: non-negative weights, in
\* halves, that sum to one
DistRows(K) == {r \in [1..K -> 0..2] : \A total \in {r[1] + (IF K > 1 THEN r[2] ELSE 0) + (IF K > 2 THEN r[3] ELSE 0) + (IF K > 3 THEN r[4] ELSE 0)} : total = 2}

\* what FASTopic.fit_transform(titles) can do on N titles and K topics: raise,
\* or return the topic words and an N x K distribution matrix
FitRaised == [raised |-> TRUE, topic_words |-> << >>, doc_topic_dist |-> << >>]

FitOutcomes(N, K) ==
    {FitRaised} \cup
    {[raised |-> FALSE, topic_words |-> [k \in 1..K |-> <<w>>], doc_topic_dist |-> m] :
        w \in Vocabulary, m \in [1..N -> DistRows(K)]}

\* no call of fit_transform
FitNotCalled == [raised |-> FALSE, topic_words |-> << >>, doc_topic_dist |-> << >>]

\* np.argmax of one row: the index, from 0, of the first greatest element
RECURSIVE ArgMaxFrom(_, _, _)
ArgMaxFrom(row, i, best) ==
    IF i > Len(row) THEN best - 1
    ELSE ArgMaxFrom(row, i + 1, IF row[i] > row[best] THEN i ELSE best)

\* ArgMax with the last greatest element in place of the first
ArgMaxLast(row) == SetMax({i \in 1..Len(row) : \A j \in 1..Len(row) : row[j] <= row[i]}) - 1

ArgMax(row) == ArgMaxFrom(row, 2, 1)

\* [f"Topic_{i}" for i in np.argmax(doc_topics, axis=1)]
DominantTopics(dist) ==
    [i \in 1..Len(dist) |-> S_Topic_ \o IntToStr(ArgMax(dist[i]))]

\* IsSmallCorpus with the bound one lower
IsEmptyCorpus(titles) == Len(titles) < 1

\* len(titles) < 2
IsSmallCorpus(titles) == Len(titles) < 2

NoResult == [topic_distributions |-> None, topic_keywords |-> << >>, dominant_topics |-> << >>]

\* AnalyzeTitlesOn with the instance's fields cleared before the fit
AnalyzeTitlesClearing(titles, fit, kw, dt) ==
    IF Len(titles) < 2
    THEN [fit_called |-> FALSE, raised |-> FALSE,
          result |-> [topic_distributions |-> None,
                      topic_keywords |-> << >>,
                      dominant_topics |-> [i \in 1..Len(titles) |-> S_Uncategorized]],
          topic_keywords |-> kw, doc_topics |-> dt]
    ELSE IF fit.raised
    THEN [fit_called |-> TRUE, raised |-> TRUE, result |-> NoResult,
          topic_keywords |-> None, doc_topics |-> None]
    ELSE [fit_called |-> TRUE, raised |-> FALSE,
          result |-> [topic_distributions |-> Some(fit.doc_topic_dist),
                      topic_keywords |-> fit.topic_words,
                      dominant_topics |-> DominantTopics(fit.doc_topic_dist)],
          topic_keywords |-> Some(fit.topic_words),
          doc_topics |-> Some(fit.doc_topic_dist)]

\* TopicVideoClassifier.analyze_titles on an instance whose topic_keywords and
\* doc_topics are kw and dt, when fit_transform (if called) does `fit`: whether
\* the model was called, whether the call raised, what it returned, and the
\* instance's topic_keywords and doc_topics after it
AnalyzeTitlesOn(titles, fit, kw, dt) ==
    IF IsSmallCorpus(titles)
    THEN [fit_called |-> FALSE, raised |-> FALSE,
          result |-> [topic_distributions |-> None,
                      topic_keywords |-> << >>,
                      dominant_topics |-> [i \in 1..Len(titles) |-> S_Uncategorized]],
          topic_keywords |-> kw, doc_topics |-> dt]
    ELSE IF fit.raised
    THEN [fit_called |-> TRUE, raised |-> TRUE, result |-> NoResult,
          topic_keywords |-> kw, doc_topics |-> dt]
    ELSE [fit_called |-> TRUE, raised |-> FALSE,
          result |-> [topic_distributions |-> Some(fit.doc_topic_dist),
                      topic_keywords |-> fit.topic_words,
                      dominant_topics |-> DominantTopics(fit.doc_topic_dist)],
          topic_keywords |-> Some(fit.topic_words),
          doc_topics |-> Some(fit.doc_topic_dist)]

\* the projection get_video_categories returns
Categories(analysis) ==
    [categories |-> analysis.dominant_topics, topic_keywords |-> analysis.topic_keywords]

VARIABLES
    num_topics,      \* TopicVideoClassifier.num_topics
    topic_keywords,  \* TopicVideoClassifier.topic_keywords: None until a fit
    doc_topics,      \* TopicVideoClassifier.doc_topics: None until a fit
    pc,              \* "idle", or "fit_transform" while a call waits for the model
    last_fit,        \* history: what the latest fit_transform that returned gave
    small_after_fit, \* history: a small corpus was analyzed after a fit returned
    image,           \* whether topic_visualization.png was written
    last             \* the latest call on the instance and how it ended

classifierVars ==
    <<num_topics, topic_keywords, doc_topics, pc, last_fit, small_after_fit, image, last>>

\* a call: fit_called and raised are what the call did, fit_raised whether
\* fit_transform raised in it, rendered and wrote what visualize_topics did
NoCall == [op |-> "none", titles |-> << >>, fit_called |-> FALSE, fit_raised |-> FALSE,
           raised |-> FALSE, rendered |-> FALSE, wrote |-> FALSE, analysis |-> NoResult,
           categories |-> Categories(NoResult)]

\* TopicVideoClassifier.__init__(num_topics)
Constructed(K) ==
    /\ num_topics = K
    /\ topic_keywords = None
    /\ doc_topics = None
    /\ pc = "idle"
    /\ last_fit = None
    /\ small_after_fit = FALSE
    /\ image = FALSE
    /\ last = NoCall

ClassifierInit == \E K \in 1..MaxTopics : Constructed(K)

\* the instance and the caller after analyze_titles, called by `op`, ended as `out`
Analyzed(op, titles, out, fit_raised) ==
    /\ topic_keywords' = out.topic_keywords
    /\ doc_topics' = out.doc_topics
    /\ pc' = "idle"
    /\ last' = [NoCall EXCEPT !.op = op, !.titles = titles,
                              !.fit_called = out.fit_called, !.raised = out.raised,
                              !.fit_raised = fit_raised,
                              !.analysis = IF op = "analyze_titles" THEN out.result ELSE NoResult,
                              !.categories = IF op = "get_video_categories" /\ ~out.raised
                                             THEN Categories(out.result) ELSE Categories(NoResult)]
    /\ UNCHANGED <<num_topics, image>>

\* a call of analyze_titles, directly or by get_video_categories: a small
\* corpus is answered at once, any other waits in fit_transform
Called(op) ==
    /\ pc = "idle"
    /\ \E titles \in TitleLists :
          IF IsSmallCorpus(titles)
          THEN /\ Analyzed(op, titles,
                           AnalyzeTitlesOn(titles, FitNotCalled, topic_keywords, doc_topics), FALSE)
               /\ small_after_fit' = (small_after_fit \/ ~last_fit.none)
               /\ UNCHANGED last_fit
          ELSE /\ pc' = "fit_transform"
               /\ last' = [NoCall EXCEPT !.op = op, !.titles = titles, !.fit_called = TRUE]
               /\ UNCHANGED <<num_topics, topic_keywords, doc_topics, last_fit,
                              small_after_fit, image>>

\* TopicVideoClassifier.analyze_titles(titles)
AnalyzeTitles == Called("analyze_titles")

\* TopicVideoClassifier.get_video_categories(titles)
GetVideoCategories == Called("get_video_categories")

\* fit_transform returns, and the call that waited for it goes on to its end
FitReturns ==
    /\ pc = "fit_transform"
    /\ \E fit \in FitOutcomes(Len(last.titles), num_topics) \ {FitRaised} :
          /\ Analyzed(last.op, last.titles,
                      AnalyzeTitlesOn(last.titles, fit, topic_keywords, doc_topics), FALSE)
          /\ last_fit' = Some([topic_words |-> fit.topic_words,
                               doc_topic_dist |-> fit.doc_topic_dist])
          /\ small_after_fit' = FALSE

\* fit_transform raises, and so does the call that waited for it
FitRaises ==
    /\ pc = "fit_transform"
    /\ Analyzed(last.op, last.titles,
                AnalyzeTitlesOn(last.titles, FitRaised, topic_keywords, doc_topics), TRUE)
    /\ UNCHANGED <<last_fit, small_after_fit>>

\* NothingToVisualize that never finds anything to draw
NothingToVisualizeEver(kw) == TRUE

\* whether visualize_topics returns at once
NothingToVisualize(kw) == kw.none

\* TopicVideoClassifier.visualize_topics(output_path): nothing without topic
\* keywords; otherwise the model renders the figure and the image is written,
\* or either step raises
VisualizeTopics ==
    /\ pc = "idle"
    /\ \E raises \in BOOLEAN :
          IF NothingToVisualize(topic_keywords)
          THEN /\ raises = FALSE
               /\ last' = [NoCall EXCEPT !.op = "visualize_topics"]
               /\ image' = image
          ELSE /\ last' = [NoCall EXCEPT !.op = "visualize_topics", !.rendered = TRUE,
                                         !.raised = raises, !.wrote = ~raises]
               /\ image' = (image \/ ~raises)
    /\ UNCHANGED <<num_topics, topic_keywords, doc_topics, pc, last_fit, small_after_fit>>

\* ------------------------------------------------------------ specifications

vars == <<parserVars, classifierVars>>

\* no parser at work
ParserIdle ==
    /\ tzname = <<S_UTC, S_UTC>>
    /\ file = << >>
    /\ soup = [loaded |-> FALSE, tree |-> << >>]
    /\ df = NoTable
    /\ entry_call = [called |-> FALSE, entry |-> NoneEntry, result |-> NoRecord]
    /\ csv = [written |-> FALSE, header |-> << >>, rows |-> << >>]

\* the parser and the command line, beside a classifier that is never called
Init == ParserInit /\ Constructed(MaxTopics)

Next ==
    \/ LoadHtml /\ UNCHANGED classifierVars
    \/ ParseWatchEntryCall /\ UNCHANGED classifierVars
    \/ ParseHistory /\ UNCHANGED classifierVars
    \/ ProcessWatchHistory /\ UNCHANGED classifierVars

Spec == Init /\ [][Next]_vars

\* a classifier instance and the calls made on it
ClassifierStart == ParserIdle /\ ClassifierInit

ClassifierNext ==
    \/ AnalyzeTitles /\ UNCHANGED parserVars
    \/ GetVideoCategories /\ UNCHANGED parserVars
    \/ FitReturns /\ UNCHANGED parserVars
    \/ FitRaises /\ UNCHANGED parserVars
    \/ VisualizeTopics /\ UNCHANGED parserVars

ClassifierSpec == ClassifierStart /\ [][ClassifierNext]_vars

\* ------------------------------------------------------------ parser claims

\* a class attribute that has every required class name among its tokens
CarriesTokens(cls) == \A c \in RequiredClasses : \E i \in 1..Len(cls) : cls[i] = c

HasTokenCell(block) == \E i \in 1..Len(block.divs) : CarriesTokens(block.divs[i].class)

\* the first div of a block that carries all the class tokens
TokenCell(block) ==
    block.divs[SetMin({i \in 1..Len(block.divs) : CarriesTokens(block.divs[i].class)})]

\* a block the statement rejects: no div with all the tokens, fewer than two
\* links in that div, or a last text line that is no timestamp
RejectedBlock(block, tz) ==
    \/ ~HasTokenCell(block)
    \/ Len(FindAllA(TokenCell(block))) < 2
    \/ ~StrpTime(LastLine(GetText(TokenCell(block))), tz).ok

RemoveAt(s, i) == SubSeq(s, 1, i - 1) \o SubSeq(s, i + 1, Len(s))

\* C1: parse_history returns at most one row per event container, and a
\* container with no div carrying all of the tokens content-cell,
\* mdl-cell--6-col and mdl-typography--body-1, with fewer than two links in
\* its content cell, or with an unparseable last line yields no row: the
\* table is the one of the document without that container.
C1_RejectedBlocksYieldNoRow ==
    df.returned =>
        /\ Len(df.rows) <= Len(WatchEntries(file))
        /\ \A i \in 1..Len(file) :
              (IsWatchEntry(file[i]) /\ RejectedBlock(file[i], tzname))
                  => df.rows = ParseHistoryOf(RemoveAt(file, i), tzname).rows

C3_CategoryColumn ==
    (df.returned /\ df.rows # << >>)
        => df.columns = <<"video", "video_url", "channel", "channel_url", "date", "category">>

\* t is s without its leading and trailing whitespace
IsTrimOf(t, s) ==
    /\ \E a \in 0..Len(s) : \E b \in 0..(Len(s) - a) :
          /\ Len(t) = Len(s) - a - b
          /\ \A i \in 1..Len(t) : t[i] = s[a + i]
          /\ \A i \in 1..a : s[i] \in Whitespace
          /\ \A i \in (Len(s) - b + 1)..Len(s) : s[i] \in Whitespace
    /\ t # << >> => (t[1] \notin Whitespace /\ t[Len(t)] \notin Whitespace)

\* the record's four link fields are those of the first two links of the
\* content cell
LinkFieldsOf(record, content) ==
    LET links == FindAllA(content)
    IN  /\ Len(links) >= 2
        /\ links[1].hasHref /\ links[2].hasHref
        /\ DictGet(record, "video_url") = links[1].href
        /\ DictGet(record, "channel_url") = links[2].href
        /\ IsTrimOf(DictGet(record, "video"), links[1].text)
        /\ IsTrimOf(DictGet(record, "channel"), links[2].text)

\* the children of a cell without its links after the second
RECURSIVE FirstTwoLinks(_, _)
FirstTwoLinks(kids, seen) ==
    IF kids = << >> THEN << >>
    ELSE IF IsAnchor(kids[1])
    THEN (IF seen < 2 THEN <<kids[1]>> ELSE << >>) \o FirstTwoLinks(Tail(kids), seen + 1)
    ELSE <<kids[1]>> \o FirstTwoLinks(Tail(kids), seen)

\* an entry with the links after the second taken out of every div
WithoutLaterLinks(entry) ==
    [entry EXCEPT !.divs = [i \in 1..Len(entry.divs) |->
        [entry.divs[i] EXCEPT !.children = FirstTwoLinks(entry.divs[i].children, 0)]]]

\* C4 (as stated): an accepted record has the href values and the trimmed
\* text of the first two links of the content cell, and the links after the
\* second contribute nothing: the entry without them gives the same record.
C4_LaterLinksNeverContribute ==
    (entry_call.called /\ ~entry_call.result.isNone) =>
        /\ LinkFieldsOf(entry_call.result.record, FindContent(entry_call.entry).div)
        /\ ParseWatchEntry(WithoutLaterLinks(entry_call.entry), tzname) = entry_call.result

\* C4 (amended): an accepted record's video_url and channel_url are the href
\* values of the first and second links of the content cell, and its video and
\* channel are the trimmed text of these two links; the links after the second
\* contribute to none of these four fields.
C4_LinkFields ==
    (entry_call.called /\ ~entry_call.result.isNone) =>
        LinkFieldsOf(entry_call.result.record, FindContent(entry_call.entry).div)

\* _parse_watch_entry accepted the entry whose first link has padded text and
\* whose cell has a third link
C4_AcceptedWithThirdLink ==
    /\ entry_call.called
    /\ entry_call.entry = ReorderedEntry
    /\ ~entry_call.result.isNone
    /\ Len(FindAllA(FindContent(entry_call.entry).div)) = 3

\* C5: every row of the table parse_history returns has video, video_url,
\* channel, channel_url and date, none of them empty.
C5_FieldsNonEmpty ==
    df.returned =>
        \A i \in 1..Len(df.rows) :
            /\ {df.rows[i][k][1] : k \in 1..Len(df.rows[i])}
                   = {"video", "video_url", "channel", "channel_url", "date"}
            /\ \A k \in {"video", "video_url", "channel", "channel_url"} :
                   DictGet(df.rows[i], k) # << >>
            /\ DictGet(df.rows[i], "date").ok

\* C6: an entry whose cell has two links with an href and ends in a timestamp
\* of the export's shape is accepted on every machine, and its date has the
\* timestamp's year, month, day, hour on the 24-hour clock, minute and second
\* and its time-zone abbreviation.
C6_ShapedStampAccepted ==
    (entry_call.called /\ ~entry_call.entry.isNone /\ FindContent(entry_call.entry).found) =>
        LET content == FindContent(entry_call.entry).div
            links   == FindAllA(content)
        IN  \A t \in ShapedStamps :
                (/\ Len(links) >= 2 /\ links[1].hasHref /\ links[2].hasHref
                 /\ LastLine(GetText(content)) = FormatStamp(t))
                    => /\ ~entry_call.result.isNone
                       /\ LET date == DictGet(entry_call.result.record, "date")
                          IN  /\ date.year = t.year /\ date.month = t.month
                              /\ date.day = t.day
                              /\ date.hour = (t.hour12 % 12) + (IF t.pm THEN 12 ELSE 0)
                              /\ date.minute = t.minute /\ date.second = t.second
                              /\ date.tzname = t.tz

\* ------------------------------------------------------------ classifier claims

\* the labels and the keyword mapping the latest call returned
ReturnedLabels ==
    IF last.op = "analyze_titles" THEN last.analysis.dominant_topics
    ELSE last.categories.categories

ReturnedKeywords ==
    IF last.op = "analyze_titles" THEN last.analysis.topic_keywords
    ELSE last.categories.topic_keywords

\* the latest call was analyze_titles or get_video_categories and has ended
AnalysisEnded == pc = "idle" /\ last.op \in {"analyze_titles", "get_video_categories"}

\* C7: on fewer than two titles, after any calls, analyze_titles and
\* get_video_categories do not call the model's fit, do not raise, return one
\* label 'Uncategorized' per title and an empty keyword mapping.
C7_SmallCorpusUncategorized ==
    (AnalysisEnded /\ Len(last.titles) < 2) =>
        /\ ~last.fit_called /\ ~last.raised
        /\ Len(ReturnedLabels) = Len(last.titles)
        /\ \A i \in 1..Len(ReturnedLabels) : ReturnedLabels[i] = S_Uncategorized
        /\ ReturnedKeywords = << >>
        /\ (last.op = "analyze_titles" => last.analysis.topic_distributions = None)

\* get_video_categories ended on one title, on an instance that holds the
\* result of an earlier fit
C7_OneTitleAfterFit ==
    /\ AnalysisEnded /\ last.op = "get_video_categories"
    /\ Len(last.titles) = 1
    /\ ~topic_keywords.none

\* C8: on N >= 2 titles, when the fit returns an N x K matrix, both calls
\* return N labels, label i being 'Topic_<j>' for the lowest column j (from 0,
\* below K) that attains the maximum of row i, and the topic words of the fit.
C8_LowestArgmaxLabels ==
    (AnalysisEnded /\ Len(last.titles) >= 2 /\ ~last.fit_raised) =>
        LET m == last_fit.val.doc_topic_dist
        IN  /\ ~last_fit.none /\ last.fit_called /\ ~last.raised
            /\ Len(ReturnedLabels) = Len(last.titles)
            /\ Len(m) = Len(last.titles)
            /\ \A i \in 1..Len(ReturnedLabels) :
                  \E j \in 0..(Len(m[i]) - 1) :
                      /\ ReturnedLabels[i] = S_Topic_ \o IntToStr(j)
                      /\ \A c \in 1..Len(m[i]) : m[i][c] <= m[i][j + 1]
                      /\ \A c \in 1..j : m[i][c] < m[i][j + 1]
            /\ ReturnedKeywords = last_fit.val.topic_words
            /\ (last.op = "analyze_titles" => last.analysis.topic_distributions = Some(m))

\* get_video_categories ended on a matrix whose first row has its maximum in
\* more than one column
C8_TieInFirstRow ==
    /\ AnalysisEnded /\ last.op = "get_video_categories"
    /\ Len(last.titles) >= 2 /\ ~last.fit_raised
    /\ num_topics >= 2
    /\ LET row == last_fit.val.doc_topic_dist[1]
       IN  Cardinality({c \in 1..Len(row) : \A d \in 1..Len(row) : row[d] <= row[c]}) >= 2

\* C9: when fit_transform raises in analyze_titles or get_video_categories,
\* the call raises, returns no labels and no keyword mapping, and leaves
\* topic_keywords and doc_topics as they were before it.
C9_FailedFitPropagates ==
    /\ [](last.fit_raised =>
             /\ last.raised
             /\ last.analysis = NoResult
             /\ last.categories = Categories(NoResult))
    /\ [][(pc = "fit_transform" /\ last'.fit_raised) =>
             (topic_keywords' = topic_keywords /\ doc_topics' = doc_topics)]_vars

\* the fit raised in a call on an instance that holds the result of an
\* earlier fit
C9_FailedAfterFit ==
    /\ pc = "idle" /\ last.fit_raised /\ last.raised
    /\ Len(last.titles) >= 2
    /\ ~topic_keywords.none /\ ~doc_topics.none

\* C10: visualize_topics renders nothing, writes nothing and raises nothing
\* exactly when no fit has returned on the instance; small-corpus calls and
\* calls whose fit raised change nothing, and the instance holds the result of
\* the latest fit that returned.
C10_NoOpUntilFit ==
    /\ last.op = "visualize_topics" =>
          ((~last.rendered /\ ~last.wrote /\ ~last.raised) <=> last_fit.none)
    /\ topic_keywords = (IF last_fit.none THEN None ELSE Some(last_fit.val.topic_words))
    /\ doc_topics = (IF last_fit.none THEN None ELSE Some(last_fit.val.doc_topic_dist))
    /\ (last_fit.none => ~image)

\* visualize_topics rendered after a small-corpus call that followed a fit
C10_RendersAfterSmallCorpus ==
    /\ last.op = "visualize_topics"
    /\ last.rendered /\ last.wrote
    /\ small_after_fit

====
